---- MODULE Spec2Model ----
(***************************************************************************)
(* Value layer of the goja runtime (src/value.go): the value kinds, the    *)
(* three equality relations (SameAs, Equals, StrictEquals), the hash       *)
(* contract, the operations of valueUnresolved and the property slot       *)
(* (valueProperty) with its get / set accessors.                           *)
(***************************************************************************)
EXTENDS Integers, Sequences, FiniteSets, TLC

VARIABLES
    pkgHasher,  \* the seed of the package-level maphash.Hash (value.go:17)
    a,          \* receiver of the last Value operation
    b,          \* argument of the last Value operation
    op,         \* name of the last operation
    out,        \* outcome of the last operation: [tag, val, prims]
    p,          \* the valueProperty under test
    this,       \* receiver passed to the last get / set
    arg,        \* value passed to the last set
    calls,      \* FunctionCalls made by the last get / set
    heap,       \* memory accounting: the property slot of each object
    ctx,        \* the accounting context: identities already visited
    stack,      \* the MemUsage calls still to be made, innermost first
    usage,      \* <<memUsage, newMemUsage>> accumulated so far
    sized       \* how often each object's own size was added

memVars == <<heap, ctx, stack, usage, sized>>
vars == <<pkgHasher, a, b, op, out, p, this, arg, calls, memVars>>

(***************************************************************************)
(* Bounds of the model.                                                    *)
(***************************************************************************)
MaxInt == 2         \* integers range over -MaxInt..MaxInt
NumSymbols == 2     \* distinct *Symbol instances
NumObjects == 12    \* distinct *Object instances
NumSlots == 2       \* distinct *valueProperty instances used as operands
NumSeeds == 2       \* possible seeds of pkgHasher

(***************************************************************************)
(* Program constants.                                                      *)
(***************************************************************************)
SizeString == 16          \* unsafe.Sizeof("") on a 64-bit build
ExpBias == 1023           \* IEEE-754 binary64 exponent bias
Two26 == 67108864         \* 2^26: a uint64 is <<top 12 bits, mid 26, low 26>>

(***************************************************************************)
(* The value kinds.                                                        *)
(***************************************************************************)
Nil == [kind |-> "nil"]                       \* a nil Value / nil *Object

valueInt(n) == [kind |-> "int", n |-> n]
valueInt64(n) == [kind |-> "int64", n |-> n]
\* A float64 is NaN, an infinity, or the finite value (-1)^neg * twice / 2.
valueFloat(cls, neg, twice) ==
    [kind |-> "float", cls |-> cls, neg |-> neg, twice |-> twice]
valueBool(v) == [kind |-> "bool", v |-> v]
valueNull == [kind |-> "null"]
valueUndefined == [kind |-> "undefined"]
valueString(s) == [kind |-> "string", s |-> s]
\* newSymbol: r is the address of the new instance, kept as its hash
newSymbol(r, s) == [kind |-> "symbol", h |-> r, desc |-> s]
NewSymbol(r, s) == newSymbol(r, s)
Symbol(h) == NewSymbol(h, "sym")
Object(id) == [kind |-> "object", id |-> id]
valueProperty(id) == [kind |-> "property", id |-> id]
valueUnresolved(ref) == [kind |-> "unresolved", ref |-> ref]

_NaN == valueFloat("nan", FALSE, 0)
_positiveInf == valueFloat("inf", FALSE, 0)
_negativeInf == valueFloat("inf", TRUE, 0)
_negativeZero == valueFloat("fin", TRUE, 0)
_undefined == valueUndefined
_null == valueNull
valueTrue == valueBool(TRUE)
valueFalse == valueBool(FALSE)

Ints == {valueInt(n) : n \in -MaxInt..MaxInt}
Int64s == {valueInt64(n) : n \in -MaxInt..MaxInt}
FiniteFloats ==
    {valueFloat("fin", s, t) : s \in BOOLEAN, t \in 0..(2 * MaxInt + 1)}
Floats == FiniteFloats \cup {_NaN, _positiveInf, _negativeInf}
Bools == {valueTrue, valueFalse}
Strings == {valueString(s) : s \in {"", "0", "1", "x"}}
Symbols == {Symbol(h) : h \in 1..NumSymbols}
Objects == {Object(id) : id \in 1..NumObjects}
Slots == {valueProperty(id) : id \in 1..NumSlots}
Unresolveds == {valueUnresolved(r) : r \in {<<"x">>, <<"f", "o", "o">>}}

Primitives ==
    Ints \cup Int64s \cup Floats \cup Bools \cup Strings \cup Symbols
        \cup {valueNull, valueUndefined}
Values == Primitives \cup Objects \cup Slots \cup Unresolveds

(***************************************************************************)
(* Outcomes: a returned value or a panic (typeError, referenceError,       *)
(* fatal), with the number of Object.toPrimitive calls made on the way.    *)
(***************************************************************************)
Ret(v) == [tag |-> "ret", val |-> v, prims |-> 0]
Throw(tag, msg) == [tag |-> tag, val |-> msg, prims |-> 0]
AfterPrim(r) == [r EXCEPT !.prims = @ + 1]

(***************************************************************************)
(* float64 arithmetic on the bounded floats.                               *)
(***************************************************************************)
IsNaN(f) == f.cls = "nan"
IsInf(f, sign) == f.cls = "inf" /\ (f.neg <=> sign < 0)
Signbit(f) == f.neg
\* float64(i) for an integer i
IntToFloat(n) == valueFloat("fin", n < 0, 2 * (IF n < 0 THEN -n ELSE n))
\* the == of float64: NaN equals nothing, +0 == -0
FloatEq(x, y) ==
    CASE IsNaN(x) \/ IsNaN(y) -> FALSE
      [] x.cls = "inf" \/ y.cls = "inf" -> x.cls = y.cls /\ x.neg = y.neg
      [] OTHER -> x.twice = y.twice /\ (x.twice = 0 \/ x.neg = y.neg)

\* floor(log2 t) for t >= 1
RECURSIVE Log2(_)
Log2(t) == IF t < 2 THEN 0 ELSE 1 + Log2(t \div 2)

\* uint64(i): the two's complement reinterpretation of an int
Uint64OfInt(n) ==
    IF n >= 0 THEN <<0, 0, n>> ELSE <<4095, Two26 - 1, Two26 + n>>

\* math.Float64bits: sign bit, 11 exponent bits, 52 fraction bits
Float64bits(f) ==
    LET s == IF f.neg THEN 2048 ELSE 0 IN
    CASE f.cls = "nan" -> <<2 * ExpBias + 1, Two26 \div 2, 1>>
      [] f.cls = "inf" -> <<s + 2 * ExpBias + 1, 0, 0>>
      [] f.twice = 0 -> <<s, 0, 0>>
      [] OTHER ->
            LET k == Log2(f.twice)
            IN  <<s + ExpBias - 1 + k, (f.twice - 2 ^ k) * (Two26 \div (2 ^ k)), 0>>

\* randomHash(): the n-th Sum64 of the seeded package hasher
randomHash(seed, n) == <<seed, 0, n>>
hashFalse == randomHash(pkgHasher, 1)
hashTrue == randomHash(pkgHasher, 2)
hashNull == randomHash(pkgHasher, 3)
hashUndef == randomHash(pkgHasher, 4)

(***************************************************************************)
(* Collaborators outside value.go.                                         *)
(***************************************************************************)
\* The small-integer cache: intToValue(i) is the boxed valueInt.
intToValue(n) == valueInt(n)

\* What each object's primitive-coercion hook yields; "throws" is a hook
\* that raises a type error.
PrimTable ==
    << valueInt(1), valueInt(0), valueFloat("fin", FALSE, 2), _NaN,
       valueTrue, valueNull, valueUndefined, Symbol(1), valueString("1"),
       valueInt64(1), [kind |-> "throws"] >>
PrimOf(o) == PrimTable[((o.id - 1) % Len(PrimTable)) + 1]
toPrimitive(o) ==
    IF PrimOf(o).kind = "throws"
    THEN AfterPrim(Throw("typeError", "Cannot convert object to primitive value"))
    ELSE AfterPrim(Ret(PrimOf(o)))

\* Object.getId(): a stable per-instance id
getId(o) == <<0, 1, o.id>>

\* Object.self.equal(other.self): the exotic self-equality hook; objects
\* 1 and 2 wrap the same host value and accept each other.
selfEqual(o, other) == o.id \in {1, 2} /\ other.id \in {1, 2}

\* valueString.ToNumber / ToFloat, owned by the string collaborator
valueString_ToNumber(s) ==
    CASE s.s = "" -> valueInt(0)
      [] s.s = "0" -> valueInt(0)
      [] s.s = "1" -> valueInt(1)
      [] OTHER -> _NaN
valueString_ToFloat(s) ==
    LET n == valueString_ToNumber(s)
    IN  IF n.kind = "int" THEN IntToFloat(n.n) ELSE n

(***************************************************************************)
(* valueInt                                                                *)
(***************************************************************************)
RECURSIVE Equals(_, _)
RECURSIVE valueInt_Equals(_, _)
RECURSIVE valueFloat_Equals(_, _)
RECURSIVE Symbol_Equals(_, _)
RECURSIVE Object_Equals(_, _)
RECURSIVE valueInt64_Equals(_, _)
RECURSIVE valueString_Equals(_, _)

\* i == other on interface values: same dynamic type and same value
valueInt_SameAs(i, other) == Ret(other.kind = "int" /\ i.n = other.n)

valueBool_ToInteger(v) == IF v.v THEN 1 ELSE 0
valueBool_ToFloat(v) == IF v.v THEN IntToFloat(1) ELSE IntToFloat(0)
valueBool_ToNumber(v) == IF v.v THEN valueInt(1) ELSE valueInt(0)

valueInt_Equals(i, other) ==
    CASE other.kind = "int" -> Ret(i.n = other.n)
      [] other.kind = "int64" -> Ret(i.n = other.n)
      [] other.kind = "float" -> Ret(FloatEq(IntToFloat(i.n), other))
      [] other.kind = "string" -> Equals(valueString_ToNumber(other), i)
      [] other.kind = "bool" -> Ret(i.n = valueBool_ToInteger(other))
      [] other.kind = "object" ->
            LET r == toPrimitive(other)
            IN  IF r.tag # "ret" THEN r ELSE AfterPrim(valueInt_Equals(i, r.val))
      [] OTHER -> Ret(FALSE)

valueInt_StrictEquals(i, other) ==
    CASE other.kind = "int" -> Ret(i.n = other.n)
      [] other.kind = "int64" -> Ret(i.n = other.n)
      [] other.kind = "float" -> Ret(FloatEq(IntToFloat(i.n), other))
      [] OTHER -> Ret(FALSE)

valueInt_hash(i) == Ret(Uint64OfInt(i.n))

(***************************************************************************)
(* valueBool                                                               *)
(***************************************************************************)
valueBool_SameAs(v, other) == Ret(other.kind = "bool" /\ v.v = other.v)

\* variant: the 1 / 0 branches swapped
valueBool_Equals_swapped(v, other) ==
    IF other.kind = "bool" THEN Ret(v.v = other.v)
    ELSE IF v.v THEN Equals(other, intToValue(0))
    ELSE Equals(other, intToValue(1))

valueBool_Equals(v, other) ==
    IF other.kind = "bool" THEN Ret(v.v = other.v)
    ELSE IF v.v THEN Equals(other, intToValue(1))
    ELSE Equals(other, intToValue(0))

\* variant: a Boolean strictly equals the Integer it converts to
valueBool_StrictEquals_coercing(v, other) ==
    Ret(\/ other.kind = "bool" /\ v.v = other.v
        \/ other.kind = "int" /\ other.n = (IF v.v THEN 1 ELSE 0))

valueBool_StrictEquals(v, other) == Ret(other.kind = "bool" /\ v.v = other.v)

valueBool_hash(v) == Ret(IF v.v THEN hashTrue ELSE hashFalse)

(***************************************************************************)
(* valueNull and valueUndefined (which embeds valueNull)                   *)
(***************************************************************************)
valueNull_SameAs(n, other) == Ret(other.kind = "null")
\* variant: null also loosely equals the Integer 0
valueNull_Equals_zero(n, other) ==
    Ret(other.kind \in {"undefined", "null"} \/ (other.kind = "int" /\ other.n = 0))
valueNull_Equals(n, other) == Ret(other.kind \in {"undefined", "null"})
valueNull_StrictEquals(n, other) == Ret(other.kind = "null")
valueNull_hash(n) == Ret(hashNull)

valueUndefined_SameAs(u, other) == Ret(other.kind = "undefined")
valueUndefined_Equals(u, other) == valueNull_Equals(u, other)
valueUndefined_StrictEquals(u, other) == Ret(other.kind = "undefined")
valueUndefined_hash(u) == Ret(hashUndef)

(***************************************************************************)
(* valueProperty as a Value                                                *)
(***************************************************************************)
valueProperty_SameAs(q, other) == Ret(other.kind = "property" /\ q.id = other.id)
valueProperty_Equals(q, other) == Ret(FALSE)
valueProperty_StrictEquals(q, other) == Ret(FALSE)
\* variant: a slot hashes like a plain value
valueProperty_hash_zero(q) == Ret(<<0, 0, 0>>)

valueProperty_hash(q) ==
    Throw("fatal", "valueProperty should never be used in maps or sets")
valueProperty_Export(q) == Throw("fatal", "Cannot export valueProperty")
valueProperty_ExportType(q) == Throw("fatal", "Cannot export valueProperty")

(***************************************************************************)
(* valueFloat                                                              *)
(***************************************************************************)
valueFloat_SameAs(f, other) ==
    CASE other.kind = "float" ->
            IF IsNaN(f) /\ IsNaN(other) THEN Ret(TRUE)
            ELSE LET ret == FloatEq(f, other)
                 IN  IF ret /\ FloatEq(f, IntToFloat(0))
                     THEN Ret(Signbit(f) = Signbit(other))
                     ELSE Ret(ret)
      [] other.kind \in {"int", "int64"} ->
            LET ret == FloatEq(f, IntToFloat(other.n))
            IN  IF ret /\ FloatEq(f, IntToFloat(0))
                THEN Ret(~Signbit(f))
                ELSE Ret(ret)
      [] OTHER -> Ret(FALSE)

valueFloat_Equals(f, other) ==
    CASE other.kind = "float" -> Ret(FloatEq(f, other))
      [] other.kind = "int" -> Ret(FloatEq(f, IntToFloat(other.n)))
      [] other.kind = "int64" -> Ret(FloatEq(f, IntToFloat(other.n)))
      [] other.kind = "string" -> Ret(FloatEq(f, valueString_ToFloat(other)))
      [] other.kind = "bool" -> Ret(FloatEq(f, valueBool_ToFloat(other)))
      [] other.kind = "object" ->
            LET r == toPrimitive(other)
            IN  IF r.tag # "ret" THEN r ELSE AfterPrim(valueFloat_Equals(f, r.val))
      [] OTHER -> Ret(FALSE)

valueFloat_StrictEquals(f, other) ==
    CASE other.kind = "float" -> Ret(FloatEq(f, other))
      [] other.kind = "int" -> Ret(FloatEq(f, IntToFloat(other.n)))
      [] other.kind = "int64" -> Ret(FloatEq(f, IntToFloat(other.n)))
      [] OTHER -> Ret(FALSE)

\* variant: the bits are hashed without the zero test
valueFloat_hash_bits(f) == Ret(Float64bits(f))

\* f == _negativeZero compares float64 values, so it holds of both zeros
valueFloat_hash(f) ==
    IF FloatEq(f, _negativeZero) THEN Ret(<<0, 0, 0>>)
    ELSE Ret(Float64bits(f))

(***************************************************************************)
(* Object                                                                  *)
(***************************************************************************)
Object_SameAs(o, other) == Ret(other.kind = "object" /\ o.id = other.id)

\* variant: *Symbol missing from the kinds that reduce the object
Object_Equals_noSymbol(o, other) ==
    CASE other.kind = "object" -> Ret(o.id = other.id \/ selfEqual(o, other))
      [] other.kind \in {"int", "float", "string", "int64"} ->
            LET r == toPrimitive(o)
            IN  IF r.tag # "ret" THEN r ELSE AfterPrim(Equals(r.val, other))
      [] other.kind = "bool" -> Object_Equals(o, valueBool_ToNumber(other))
      [] OTHER -> Ret(FALSE)

Object_Equals(o, other) ==
    CASE other.kind = "object" -> Ret(o.id = other.id \/ selfEqual(o, other))
      [] other.kind \in {"int", "float", "string", "int64", "symbol"} ->
            LET r == toPrimitive(o)
            IN  IF r.tag # "ret" THEN r ELSE AfterPrim(Equals(r.val, other))
      [] other.kind = "bool" -> Object_Equals(o, valueBool_ToNumber(other))
      [] OTHER -> Ret(FALSE)

Object_StrictEquals(o, other) ==
    IF other.kind = "object"
    THEN Ret(o.id = other.id \/ selfEqual(o, other))
    ELSE Ret(FALSE)

Object_hash(o) == Ret(getId(o))

(***************************************************************************)
(* Symbol                                                                  *)
(***************************************************************************)
\* variant: Symbols are compared by their descriptive text
Symbol_SameAs_byDesc(s, other) ==
    Ret(other.kind = "symbol" /\ s.desc = other.desc)

Symbol_SameAs(s, other) == Ret(other.kind = "symbol" /\ s.h = other.h)

Symbol_Equals(s, o) ==
    IF o.kind = "object"
    THEN LET r == toPrimitive(o)
         IN  IF r.tag # "ret" THEN r ELSE AfterPrim(Symbol_Equals(s, r.val))
    ELSE Symbol_SameAs(s, o)

Symbol_StrictEquals(s, o) == Symbol_SameAs(s, o)

\* s.h is the address the symbol was allocated at
Symbol_hash(s) == Ret(<<0, 2, s.h>>)

(***************************************************************************)
(* valueUnresolved                                                         *)
(***************************************************************************)
throwReferenceError(ref) == Throw("referenceError", ref)
\* variant: the wrong error type is raised
valueUnresolved_throw_typeError(o) == Throw("typeError", o.ref)
valueUnresolved_throw(o) == throwReferenceError(o.ref)

UnresolvedOps ==
    { "ToInteger", "IsNumber", "IsObject", "toString", "string", "ToString",
      "String", "ToFloat", "ToBoolean", "ToObject", "ToNumber", "SameAs",
      "Equals", "StrictEquals", "baseObject", "Export", "ExportType", "hash",
      "MemUsage", "ToInt", "ToInt32", "ToUInt32", "ToInt64", "assertInt",
      "assertUInt32", "assertInt32", "assertInt64", "assertFloat",
      "assertString" }

\* every method of valueUnresolved, by name
valueUnresolved_call(o, name) ==
    CASE name \in {"IsNumber", "IsObject"} -> Ret(FALSE)
      [] name = "MemUsage" -> Ret(<<Len(o.ref), Len(o.ref) + SizeString, Nil>>)
      [] OTHER -> valueUnresolved_throw(o)

(***************************************************************************)
(* Loose equality of the kinds whose methods live outside value.go         *)
(***************************************************************************)
\* SameValue with a BigInteger receiver: by numeric content, an integer
\* zero being a positive zero
valueInt64_SameAs(i, other) ==
    CASE other.kind \in {"int", "int64"} -> Ret(i.n = other.n)
      [] other.kind = "float" ->
            Ret(FloatEq(IntToFloat(i.n), other) /\ (i.n = 0 => ~other.neg))
      [] OTHER -> Ret(FALSE)

valueInt64_Equals(i, other) ==
    CASE other.kind \in {"int", "int64"} -> Ret(i.n = other.n)
      [] other.kind = "float" -> Ret(FloatEq(IntToFloat(i.n), other))
      [] other.kind = "string" -> Equals(valueString_ToNumber(other), i)
      [] other.kind = "bool" -> Ret(i.n = valueBool_ToInteger(other))
      [] other.kind = "object" ->
            LET r == toPrimitive(other)
            IN  IF r.tag # "ret" THEN r ELSE AfterPrim(valueInt64_Equals(i, r.val))
      [] OTHER -> Ret(FALSE)

valueString_Equals(s, other) ==
    CASE other.kind = "string" -> Ret(s.s = other.s)
      [] other.kind \in {"int", "int64", "float"} ->
            Equals(valueString_ToNumber(s), other)
      [] other.kind = "bool" -> Equals(s, valueBool_ToNumber(other))
      [] other.kind = "object" ->
            LET r == toPrimitive(other)
            IN  IF r.tag # "ret" THEN r ELSE AfterPrim(valueString_Equals(s, r.val))
      [] OTHER -> Ret(FALSE)

(***************************************************************************)
(* Dispatch on the receiver's dynamic type.                                *)
(***************************************************************************)
InSrc(x) == x.kind \notin {"int64", "string"}

SameAs(x, y) ==
    CASE x.kind = "int" -> valueInt_SameAs(x, y)
      [] x.kind = "int64" -> valueInt64_SameAs(x, y)
      [] x.kind = "float" -> valueFloat_SameAs(x, y)
      [] x.kind = "bool" -> valueBool_SameAs(x, y)
      [] x.kind = "null" -> valueNull_SameAs(x, y)
      [] x.kind = "undefined" -> valueUndefined_SameAs(x, y)
      [] x.kind = "symbol" -> Symbol_SameAs(x, y)
      [] x.kind = "object" -> Object_SameAs(x, y)
      [] x.kind = "property" -> valueProperty_SameAs(x, y)
      [] x.kind = "unresolved" -> valueUnresolved_call(x, "SameAs")

Equals(x, y) ==
    CASE x.kind = "int" -> valueInt_Equals(x, y)
      [] x.kind = "int64" -> valueInt64_Equals(x, y)
      [] x.kind = "float" -> valueFloat_Equals(x, y)
      [] x.kind = "string" -> valueString_Equals(x, y)
      [] x.kind = "bool" -> valueBool_Equals(x, y)
      [] x.kind = "null" -> valueNull_Equals(x, y)
      [] x.kind = "undefined" -> valueUndefined_Equals(x, y)
      [] x.kind = "symbol" -> Symbol_Equals(x, y)
      [] x.kind = "object" -> Object_Equals(x, y)
      [] x.kind = "property" -> valueProperty_Equals(x, y)
      [] x.kind = "unresolved" -> valueUnresolved_call(x, "Equals")

StrictEquals(x, y) ==
    CASE x.kind = "int" -> valueInt_StrictEquals(x, y)
      [] x.kind = "float" -> valueFloat_StrictEquals(x, y)
      [] x.kind = "bool" -> valueBool_StrictEquals(x, y)
      [] x.kind = "null" -> valueNull_StrictEquals(x, y)
      [] x.kind = "undefined" -> valueUndefined_StrictEquals(x, y)
      [] x.kind = "symbol" -> Symbol_StrictEquals(x, y)
      [] x.kind = "object" -> Object_StrictEquals(x, y)
      [] x.kind = "property" -> valueProperty_StrictEquals(x, y)
      [] x.kind = "unresolved" -> valueUnresolved_call(x, "StrictEquals")

hash(x) ==
    CASE x.kind = "int" -> valueInt_hash(x)
      [] x.kind = "float" -> valueFloat_hash(x)
      [] x.kind = "bool" -> valueBool_hash(x)
      [] x.kind = "null" -> valueNull_hash(x)
      [] x.kind = "undefined" -> valueUndefined_hash(x)
      [] x.kind = "symbol" -> Symbol_hash(x)
      [] x.kind = "object" -> Object_hash(x)
      [] x.kind = "property" -> valueProperty_hash(x)
      [] x.kind = "unresolved" -> valueUnresolved_call(x, "hash")

(***************************************************************************)
(* valueProperty: the property slot and its accessors.                     *)
(***************************************************************************)
IsNil(v) == v.kind = "nil"

\* Callable objects used as getters and setters, and what calling one
\* yields: function 1 returns its This, every other one returns its own id.
Getters == {Object(1), Object(2)}
Setters == {Object(3)}
Receivers == {Object(4), Object(5)}
SlotValues == {valueInt(0), valueInt(1), _undefined}

FunctionCall(fn, thisv, args) == [fn |-> fn, This |-> thisv, Arguments |-> args]
call(fc) == IF fc.fn.id = 1 THEN fc.This ELSE valueInt(fc.fn.id)

\* variant: only the flag counts
isWritable_flagOnly(q) == q.writable

isWritable(q) == q.writable \/ ~IsNil(q.setterFunc)

\* get: the returned value and the calls made
valueProperty_get(q, thisv) ==
    IF IsNil(q.getterFunc)
    THEN IF ~IsNil(q.value)
         THEN [ret |-> q.value, calls |-> <<>>]
         ELSE [ret |-> _undefined, calls |-> <<>>]
    ELSE LET fc == FunctionCall(q.getterFunc, thisv, <<>>)
         IN  [ret |-> call(fc), calls |-> <<fc>>]

\* variant: a slot that is not writable keeps its value
valueProperty_set_checked(q, thisv, v) ==
    IF IsNil(q.setterFunc)
    THEN [p |-> IF q.writable THEN [q EXCEPT !.value = v] ELSE q,
          calls |-> <<>>]
    ELSE [p |-> q, calls |-> <<FunctionCall(q.setterFunc, thisv, <<v>>)>>]

\* set: the slot afterwards and the calls made
valueProperty_set(q, thisv, v) ==
    IF IsNil(q.setterFunc)
    THEN [p |-> [q EXCEPT !.value = v], calls |-> <<>>]
    ELSE [p |-> q, calls |-> <<FunctionCall(q.setterFunc, thisv, <<v>>)>>]

\* The descriptors the object model builds: a data property holds an
\* optional value and no functions, an accessor property holds optional
\* functions and no value.
DataSlots ==
    [value : SlotValues \cup {Nil}, writable : BOOLEAN, configurable : BOOLEAN,
     enumerable : BOOLEAN, accessor : {FALSE}, getterFunc : {Nil},
     setterFunc : {Nil}]
AccessorSlots ==
    [value : {Nil}, writable : {FALSE}, configurable : BOOLEAN,
     enumerable : BOOLEAN, accessor : {TRUE}, getterFunc : Getters \cup {Nil},
     setterFunc : Setters \cup {Nil}]
ZeroSlot ==
    [value |-> Nil, writable |-> FALSE, configurable |-> FALSE,
     enumerable |-> FALSE, accessor |-> FALSE, getterFunc |-> Nil,
     setterFunc |-> Nil]

(***************************************************************************)
(* valueFloat: the 32-bit coercions.  An int32 is an integer; a uint32 is  *)
(* the pair <<high 16 bits, low 16 bits>>.                                 *)
(***************************************************************************)
MaxInt32 == 2147483647
MinInt32 == -MaxInt32 - 1
Two16 == 65536
Uint32OfInt(n) == IF n >= 0 THEN <<n \div Two16, n % Two16>>
                  ELSE <<Two16 - 1, Two16 + n>>
MaxUint32 == <<Two16 - 1, Two16 - 1>>

\* truncation toward zero of a finite float
Trunc(f) == IF f.neg THEN -(f.twice \div 2) ELSE f.twice \div 2

valueFloat_ToInt32(f) ==
    CASE IsNaN(f) -> Ret(0)
      [] IsInf(f, 1) -> Ret(MaxInt32)
      [] IsInf(f, -1) -> Ret(MinInt32)
      [] OTHER -> Ret(Trunc(f))

\* The outcomes of ToUInt32: uint32(f) of a float below zero is
\* implementation-dependent in Go (it wraps on amd64, saturates on arm64).
valueFloat_ToUInt32(f) ==
    CASE IsNaN(f) -> {Ret(Uint32OfInt(0))}
      [] IsInf(f, 1) -> {Ret(Uint32OfInt(MaxInt32))}
      [] IsInf(f, -1) -> {Ret(Uint32OfInt(0))}
      [] Trunc(f) >= 0 -> {Ret(Uint32OfInt(Trunc(f)))}
      [] OTHER -> {Ret(Uint32OfInt(Trunc(f))), Ret(Uint32OfInt(0))}

(***************************************************************************)
(* toString, and the validation of getter / setter values.                 *)
(***************************************************************************)
Digits == <<"0", "1", "2", "3", "4", "5", "6", "7", "8", "9">>
RECURSIVE FormatNat(_)
FormatNat(n) ==
    IF n < 10 THEN Digits[n + 1] ELSE FormatNat(n \div 10) \o Digits[(n % 10) + 1]
\* strconv.FormatInt(i, 10)
FormatInt(n) == IF n < 0 THEN "-" \o FormatNat(-n) ELSE FormatNat(n)
\* ftoa.FToStr in ModeStandard: the shortest decimal form
fToStr(f) ==
    CASE IsNaN(f) -> "NaN"
      [] f.cls = "inf" -> IF f.neg THEN "-Infinity" ELSE "Infinity"
      [] f.twice = 0 -> "0"
      [] OTHER ->
            (IF f.neg THEN "-" ELSE "") \o FormatNat(f.twice \div 2)
                \o (IF f.twice % 2 = 1 THEN ".5" ELSE "")

valueInt_toString(i) == Ret(valueString(FormatInt(i.n)))
valueInt64_toString(i) == Ret(valueString(FormatInt(i.n)))
valueFloat_toString(f) == Ret(valueString(fToStr(f)))
valueBool_toString(v) == Ret(valueString(IF v.v THEN "true" ELSE "false"))
valueNull_toString(n) == Ret(valueString("null"))
valueUndefined_toString(u) == Ret(valueString("undefined"))
valueString_toString(s) == Ret(s)
valueProperty_toString(q) == Ret(valueString(""))
Symbol_toString(s) ==
    Throw("typeError", "Cannot convert a Symbol value to a string")

\* Object.toPrimitiveString: the hook with the string hint
toPrimitiveString(o) == toPrimitive(o)

RECURSIVE toString(_)
Object_toString(o) ==
    LET r == toPrimitiveString(o)
    IN  IF r.tag # "ret" THEN r ELSE AfterPrim(toString(r.val))

toString(x) ==
    CASE x.kind = "int" -> valueInt_toString(x)
      [] x.kind = "int64" -> valueInt64_toString(x)
      [] x.kind = "float" -> valueFloat_toString(x)
      [] x.kind = "string" -> valueString_toString(x)
      [] x.kind = "bool" -> valueBool_toString(x)
      [] x.kind = "null" -> valueNull_toString(x)
      [] x.kind = "undefined" -> valueUndefined_toString(x)
      [] x.kind = "symbol" -> Symbol_toString(x)
      [] x.kind = "object" -> Object_toString(x)
      [] x.kind = "property" -> valueProperty_toString(x)
      [] x.kind = "unresolved" -> valueUnresolved_call(x, "toString")

\* obj.self.assertCallable(): objects 1..3 are functions
assertCallable(o) == o.id \in 1..3

\* r.typeErrorResult(true, format, v.toString()): the argument is coerced
\* first, then the type error is raised with the formatted message
typeErrorResult(format, v) ==
    LET s == toString(v)
    IN  IF s.tag # "ret" THEN s
        ELSE [Throw("typeError", format \o s.val.s) EXCEPT !.prims = s.prims]

\* variant: any Object is accepted
propGetter_anyObject(v) ==
    IF v = _undefined THEN Ret(Nil)
    ELSE IF v.kind = "object" THEN Ret(v)
    ELSE typeErrorResult("Getter must be a function: ", v)

propGetter(v) ==
    IF v = _undefined THEN Ret(Nil)
    ELSE IF v.kind = "object" /\ assertCallable(v) THEN Ret(v)
    ELSE typeErrorResult("Getter must be a function: ", v)

propSetter(v) ==
    IF v = _undefined THEN Ret(Nil)
    ELSE IF v.kind = "object" /\ assertCallable(v) THEN Ret(v)
    ELSE typeErrorResult("Setter must be a function: ", v)

(***************************************************************************)
(* Symbol: the coercions.  Every Symbol of the model carries a description. *)
(***************************************************************************)
Symbol_IsNumber(s) == Ret(FALSE)
Symbol_IsObject(s) == Ret(FALSE)
Symbol_ToInteger(s) ==
    Throw("typeError", "Cannot convert a Symbol value to a number")
Symbol_ToInt(s) ==
    Throw("typeError", "Cannot convert a Symbol value to a number")
Symbol_ToInt32(s) ==
    Throw("typeError", "Cannot convert a Symbol value to a number")
Symbol_ToUInt32(s) ==
    Throw("typeError", "Cannot convert a Symbol value to a number")
Symbol_ToInt64(s) ==
    Throw("typeError", "Cannot convert a Symbol value to a number")
\* variant: a Symbol coerces to NaN
Symbol_ToFloat_nan(s) == Ret(_NaN)
Symbol_ToFloat(s) ==
    Throw("typeError", "Cannot convert a Symbol value to a number")
Symbol_ToNumber(s) ==
    Throw("typeError", "Cannot convert a Symbol value to a number")
Symbol_ToString(s) == Ret(s)
Symbol_String(s) == Ret(s.desc)
Symbol_string(s) == Ret(s.desc)
Symbol_ToBoolean(s) == Ret(TRUE)
Symbol_Export(s) == Symbol_String(s)

SymbolOps ==
    {"IsNumber", "IsObject", "ToInteger", "ToInt", "ToInt32", "ToUInt32",
     "ToInt64", "ToFloat", "ToNumber", "toString", "ToString", "String",
     "string", "ToBoolean", "Export"}

Symbol_call(s, name) ==
    CASE name = "IsNumber" -> Symbol_IsNumber(s)
      [] name = "IsObject" -> Symbol_IsObject(s)
      [] name = "ToInteger" -> Symbol_ToInteger(s)
      [] name = "ToInt" -> Symbol_ToInt(s)
      [] name = "ToInt32" -> Symbol_ToInt32(s)
      [] name = "ToUInt32" -> Symbol_ToUInt32(s)
      [] name = "ToInt64" -> Symbol_ToInt64(s)
      [] name = "ToFloat" -> Symbol_ToFloat(s)
      [] name = "ToNumber" -> Symbol_ToNumber(s)
      [] name = "toString" -> Symbol_toString(s)
      [] name = "ToString" -> Symbol_ToString(s)
      [] name = "String" -> Symbol_String(s)
      [] name = "string" -> Symbol_string(s)
      [] name = "ToBoolean" -> Symbol_ToBoolean(s)
      [] name = "Export" -> Symbol_Export(s)

(***************************************************************************)
(* Memory accounting.  Objects 1..NumMemObjects are plain objects holding  *)
(* one property slot each; the next two identities are a Go-reflect        *)
(* wrapper and an object wrapping a native resource.                       *)
(***************************************************************************)
NumMemObjects == 2
SizeNumber == 8           \* unsafe.Sizeof(float64(0))
SizeEmptyStruct == 8      \* unsafe.Sizeof((*baseObject)(nil))
NativeSize == 4           \* what the context reports for the native resource

MemObjects == {Object(i) : i \in 1..NumMemObjects}
GoReflectObject == Object(NumMemObjects + 1)
WrappedObject == Object(NumMemObjects + 2)

\* o.self by dynamic type, and o.__wrapped
self(o) ==
    IF o.id = GoReflectObject.id THEN "objectGoReflect" ELSE "baseObject"
wrapped(o) == o.id = WrappedObject.id

\* ctx.NativeMemUsage: the size of a wrapped native resource, when known
NativeMemUsage(o) == [size |-> NativeSize, ok |-> wrapped(o)]

\* The slots memory accounting walks: a value, a getter and a setter, each
\* optional.
MemSlots ==
    [value : {Nil, valueInt(1), GoReflectObject, WrappedObject}
                \cup MemObjects,
     getterFunc : {Nil, Object(1)},
     setterFunc : {Nil, Object(NumMemObjects)},
     writable : {FALSE}, configurable : {FALSE}, enumerable : {FALSE},
     accessor : {FALSE}]
Heaps == [1..NumMemObjects -> MemSlots \cup {Nil}]

\* A MemUsage call yields its own increment <<memUsage, newMemUsage>>, the
\* identities it marks visited, and the nested MemUsage calls it makes, in
\* order.
MemResult(inc, newInc, visit, nested) ==
    [inc |-> <<inc, newInc>>, visit |-> visit, nested |-> nested]

valueInt_MemUsage(i) == MemResult(SizeNumber, SizeNumber, {}, <<>>)

\* variant: the setter is not accounted
valueProperty_MemUsage_noSetter(q) ==
    IF q = Nil THEN MemResult(SizeEmptyStruct, SizeEmptyStruct, {}, <<>>)
    ELSE MemResult(0, 0, {},
            SelectSeq(<<q.value, q.getterFunc>>, LAMBDA v : ~IsNil(v)))

valueProperty_MemUsage(q) ==
    IF q = Nil THEN MemResult(SizeEmptyStruct, SizeEmptyStruct, {}, <<>>)
    ELSE MemResult(0, 0, {},
            SelectSeq(<<q.value, q.getterFunc, q.setterFunc>>,
                      LAMBDA v : ~IsNil(v)))

\* The object's own MemUsageReporter: nothing on a revisit; otherwise the
\* object is marked visited and its own size and its property are counted.
baseObject_MemUsage(o, visited) ==
    IF o.id \in visited THEN MemResult(0, 0, {}, <<>>)
    ELSE MemResult(SizeEmptyStruct, SizeEmptyStruct, {o.id},
                   <<valueProperty(o.id)>>)

Object_MemUsage(o, visited) ==
    IF IsNil(o) THEN MemResult(SizeEmptyStruct, SizeEmptyStruct, {}, <<>>)
    ELSE IF wrapped(o) /\ NativeMemUsage(o).ok
    THEN MemResult(NativeMemUsage(o).size, NativeMemUsage(o).size, {}, <<>>)
    ELSE IF self(o) = "objectGoReflect"
    THEN MemResult(SizeEmptyStruct, SizeEmptyStruct, {}, <<>>)
    ELSE baseObject_MemUsage(o, visited)

\* v.MemUsage(ctx) by dynamic type; a property handle stands for the slot
\* the heap holds for that object
MemUsage(v, h, visited) ==
    CASE v.kind = "int" -> valueInt_MemUsage(v)
      [] v.kind = "object" -> Object_MemUsage(v, visited)
      [] v.kind = "property" -> valueProperty_MemUsage(h[v.id])

\* No accounting in progress.
MemIdle ==
    /\ heap = [i \in 1..NumMemObjects |-> Nil]
    /\ ctx = {}
    /\ stack = <<>>
    /\ usage = <<0, 0>>
    /\ sized = [i \in 1..NumMemObjects |-> 0]

(***************************************************************************)
(* Spec: the Value operations applied to a receiver a and an argument b.   *)
(***************************************************************************)
Init ==
    /\ pkgHasher \in 1..NumSeeds
    /\ a \in Values
    /\ b \in Values
    /\ op = "init"
    /\ out = Ret(Nil)
    /\ p = ZeroSlot
    /\ this = Nil
    /\ arg = Nil
    /\ calls = <<>>
    /\ MemIdle

DoSameAs ==
    /\ InSrc(a)
    /\ op' = "SameAs"
    /\ out' = SameAs(a, b)
    /\ UNCHANGED <<pkgHasher, a, b, p, this, arg, calls, memVars>>

DoEquals ==
    /\ op' = "Equals"
    /\ out' = Equals(a, b)
    /\ UNCHANGED <<pkgHasher, a, b, p, this, arg, calls, memVars>>

DoStrictEquals ==
    /\ InSrc(a)
    /\ op' = "StrictEquals"
    /\ out' = StrictEquals(a, b)
    /\ UNCHANGED <<pkgHasher, a, b, p, this, arg, calls, memVars>>

DoHash ==
    /\ InSrc(a)
    /\ op' = "hash"
    /\ out' = hash(a)
    /\ UNCHANGED <<pkgHasher, a, b, p, this, arg, calls, memVars>>

DoUnresolved ==
    \E name \in UnresolvedOps \ {"SameAs", "Equals", "StrictEquals", "hash"} :
        /\ a.kind = "unresolved"
        /\ op' = name
        /\ out' = valueUnresolved_call(a, name)
        /\ UNCHANGED <<pkgHasher, a, b, p, this, arg, calls, memVars>>

DoFloatToInt32 ==
    /\ a.kind = "float"
    /\ op' = "ToInt32"
    /\ out' = valueFloat_ToInt32(a)
    /\ UNCHANGED <<pkgHasher, a, b, p, this, arg, calls, memVars>>

DoFloatToUInt32 ==
    /\ a.kind = "float"
    /\ op' = "ToUInt32"
    /\ out' \in valueFloat_ToUInt32(a)
    /\ UNCHANGED <<pkgHasher, a, b, p, this, arg, calls, memVars>>

DoPropGetter ==
    /\ op' = "propGetter"
    /\ out' = propGetter(a)
    /\ UNCHANGED <<pkgHasher, a, b, p, this, arg, calls, memVars>>

DoPropSetter ==
    /\ op' = "propSetter"
    /\ out' = propSetter(a)
    /\ UNCHANGED <<pkgHasher, a, b, p, this, arg, calls, memVars>>

DoPropertyExport ==
    /\ a.kind = "property"
    /\ \/ op' = "Export" /\ out' = valueProperty_Export(a)
       \/ op' = "ExportType" /\ out' = valueProperty_ExportType(a)
    /\ UNCHANGED <<pkgHasher, a, b, p, this, arg, calls, memVars>>

DoSymbol ==
    \E name \in SymbolOps :
        /\ a.kind = "symbol"
        /\ op' = name
        /\ out' = Symbol_call(a, name)
        /\ UNCHANGED <<pkgHasher, a, b, p, this, arg, calls, memVars>>

Next ==
    \/ DoPropertyExport \/ DoSymbol
    \/ DoSameAs \/ DoEquals \/ DoStrictEquals \/ DoHash \/ DoUnresolved
    \/ DoFloatToInt32 \/ DoFloatToUInt32
    \/ DoPropGetter \/ DoPropSetter

Spec == Init /\ [][Next]_vars

(***************************************************************************)
(* SpecSlot: get and set applied to one property slot.                     *)
(***************************************************************************)
InitSlot ==
    /\ pkgHasher = 1
    /\ a = _undefined
    /\ b = _undefined
    /\ op = "init"
    /\ out = Ret(Nil)
    /\ p \in DataSlots \cup AccessorSlots
    /\ this = Nil
    /\ arg = Nil
    /\ calls = <<>>
    /\ MemIdle

DoGet ==
    \E r \in Receivers :
        LET g == valueProperty_get(p, r)
        IN  /\ op' = "get" /\ this' = r /\ arg' = Nil
            /\ out' = Ret(g.ret)
            /\ calls' = g.calls
            /\ UNCHANGED <<pkgHasher, a, b, p, memVars>>

DoSet ==
    \E r \in Receivers, v \in SlotValues :
        LET s == valueProperty_set(p, r, v)
        IN  /\ op' = "set" /\ this' = r /\ arg' = v
            /\ out' = Ret(Nil)
            /\ p' = s.p
            /\ calls' = s.calls
            /\ UNCHANGED <<pkgHasher, a, b, memVars>>

DoIsWritable ==
    /\ op' = "isWritable" /\ this' = Nil /\ arg' = Nil
    /\ out' = Ret(isWritable(p))
    /\ calls' = <<>>
    /\ UNCHANGED <<pkgHasher, a, b, p, memVars>>

NextSlot == DoGet \/ DoSet \/ DoIsWritable

SpecSlot == InitSlot /\ [][NextSlot]_vars

(***************************************************************************)
(* SpecMem: memory accounting of an object graph.  The recursion of        *)
(* MemUsage is run one call at a time: the stack holds the calls still to  *)
(* be made, innermost first.                                               *)
(***************************************************************************)
InitMem ==
    /\ pkgHasher = 1
    /\ a = _undefined
    /\ b = _undefined
    /\ op = "init"
    /\ out = Ret(Nil)
    /\ p = ZeroSlot
    /\ this = Nil
    /\ arg = Nil
    /\ calls = <<>>
    /\ heap \in Heaps
    /\ ctx = {}
    /\ stack = <<>>
    /\ usage = <<0, 0>>
    /\ sized = [i \in 1..NumMemObjects |-> 0]

\* The top-level call on object 1, with a fresh context.
DoMemUsage ==
    /\ op = "init"
    /\ op' = "MemUsage"
    /\ a' = Object(1)
    /\ stack' = <<Object(1)>>
    /\ ctx' = {}
    /\ usage' = <<0, 0>>
    /\ UNCHANGED <<pkgHasher, b, out, p, this, arg, calls, heap, sized>>

\* A pending call runs: its increment is added, and the calls it makes come
\* before the ones that were pending.
MemStep(v) ==
    LET r == MemUsage(v, heap, ctx)
    IN  /\ usage' = <<usage[1] + r.inc[1], usage[2] + r.inc[2]>>
        /\ ctx' = ctx \cup r.visit
        /\ stack' = r.nested \o Tail(stack)
        /\ sized' = [i \in 1..NumMemObjects |->
                        IF i \in r.visit THEN sized[i] + 1 ELSE sized[i]]

DoObjectMemUsage ==
    /\ op = "MemUsage" /\ stack # <<>>
    /\ Head(stack).kind = "object"
    /\ MemStep(Head(stack))
    /\ UNCHANGED <<pkgHasher, a, b, op, out, p, this, arg, calls, heap>>

DoPropertyMemUsage ==
    /\ op = "MemUsage" /\ stack # <<>>
    /\ Head(stack).kind = "property"
    /\ MemStep(Head(stack))
    /\ UNCHANGED <<pkgHasher, a, b, op, out, p, this, arg, calls, heap>>

DoIntMemUsage ==
    /\ op = "MemUsage" /\ stack # <<>>
    /\ Head(stack).kind = "int"
    /\ MemStep(Head(stack))
    /\ UNCHANGED <<pkgHasher, a, b, op, out, p, this, arg, calls, heap>>

\* The top-level call returns what was accumulated.
DoMemReturn ==
    /\ op = "MemUsage"
    /\ stack = <<>>
    /\ op' = "MemUsage returned"
    /\ out' = Ret(<<usage[1], usage[2], Nil>>)
    /\ UNCHANGED <<pkgHasher, a, b, p, this, arg, calls, memVars>>

NextMem ==
    \/ DoMemUsage
    \/ DoObjectMemUsage
    \/ DoPropertyMemUsage
    \/ DoIntMemUsage
    \/ DoMemReturn

\* A call, once made, runs to its return.
SpecMem == InitMem /\ [][NextMem]_vars /\ WF_vars(NextMem)

(***************************************************************************)
(* Properties.                                                             *)
(***************************************************************************)
Returned(o) == o.tag = "ret"
SameOutcome(x, y) == x.tag = y.tag /\ x.val = y.val
IsZeroFloat(v) == v.kind = "float" /\ v.cls = "fin" /\ v.twice = 0

\* C1: for a and b among Integer, Float, Boolean, Null, Undefined, Symbol
\* and Object, StrictEquals(a, b) implies hash(a) = hash(b); in particular
\* hash(Integer(n)) = hash(Float(n)).
C1Kinds == {"int", "float", "bool", "null", "undefined", "symbol", "object"}
C1_StrictEqualsSameHash ==
    (/\ op = "StrictEquals"
     /\ a.kind \in C1Kinds /\ b.kind \in C1Kinds
     /\ Returned(out) /\ out.val)
        => SameOutcome(hash(a), hash(b))

\* C2: SameValue on numbers depends only on the numeric content and the
\* sign of zero, not on the Integer / Float kind or on the operand order:
\* NaN is the same as NaN, +0.0 differs from -0.0, Integer(n) and Float(n)
\* are the same in both orders, Integer(0) being a positive zero.
NumberAsFloat(v) == IF v.kind = "int" THEN IntToFloat(v.n) ELSE v
SameValueNumber(x, y) ==
    LET fx == NumberAsFloat(x)
        fy == NumberAsFloat(y)
    IN  \/ IsNaN(fx) /\ IsNaN(fy)
        \/ FloatEq(fx, fy) /\ (fx.twice = 0 => fx.neg = fy.neg)
C2_SameValueNumbers ==
    (/\ op = "SameAs"
     /\ a.kind \in {"int", "float"} /\ b.kind \in {"int", "float"})
        => (Returned(out) /\ out.val = SameValueNumber(a, b))

\* C3: with Integer(n) as the receiver, Integer(n) and BigInteger(n) are
\* equal under SameValue, AbstractEquals and StrictEquals.
C3_IntegerEqualsBigInteger ==
    (/\ op \in {"SameAs", "Equals", "StrictEquals"}
     /\ a.kind = "int" /\ b.kind = "int64" /\ a.n = b.n)
        => (Returned(out) /\ out.val)

\* C4: set(receiver, v) in accessor mode with a setter calls the setter
\* once with This = receiver and the argument v and leaves the stored value
\* alone; in accessor mode without a setter it changes no field of the
\* slot; outside accessor mode the stored value becomes v whatever the
\* writable flag.
C4_Set ==
    [][op' = "set" =>
        /\ (p.accessor /\ ~IsNil(p.setterFunc)) =>
              /\ calls' = <<FunctionCall(p.setterFunc, this', <<arg'>>)>>
              /\ p'.value = p.value
        /\ (p.accessor /\ IsNil(p.setterFunc)) =>
              /\ p' = p
              /\ calls' = <<>>
        /\ ~p.accessor => p'.value = arg']_vars

\* C5: get(receiver) in accessor mode with a getter calls it with
\* This = receiver and returns its result; in accessor mode without a
\* getter it returns Undefined whatever the stored value; outside accessor
\* mode it returns the stored value, or Undefined when none is stored.
C5_Get ==
    op = "get" =>
        /\ (p.accessor /\ ~IsNil(p.getterFunc)) =>
              /\ calls = <<FunctionCall(p.getterFunc, this, <<>>)>>
              /\ out.val = call(FunctionCall(p.getterFunc, this, <<>>))
        /\ (p.accessor /\ IsNil(p.getterFunc)) => out.val = _undefined
        /\ ~p.accessor =>
              out.val = (IF IsNil(p.value) THEN _undefined ELSE p.value)

\* C6 (as stated): every operation of the Value interface invoked on an
\* UnresolvedReference raises a reference error carrying the name.
C6_EveryOperationRaises ==
    (a.kind = "unresolved" /\ op \in UnresolvedOps)
        => (out.tag = "referenceError" /\ out.val = a.ref)

\* C6 (amended): every operation on an UnresolvedReference except IsNumber,
\* IsObject and MemUsage raises a reference error carrying the name;
\* IsNumber and IsObject return false and MemUsage returns the sizes
\* len(name) and len(name) + SizeString with no error.
C6_OperationsRaiseExceptKindTestsAndMemUsage ==
    (a.kind = "unresolved" /\ op \in UnresolvedOps) =>
        CASE op \in {"IsNumber", "IsObject"} -> Returned(out) /\ out.val = FALSE
          [] op = "MemUsage" ->
                /\ Returned(out)
                /\ out.val = <<Len(a.ref), Len(a.ref) + SizeString, Nil>>
          [] OTHER -> out.tag = "referenceError" /\ out.val = a.ref
C6_Witness ==
    /\ a.kind = "unresolved" /\ op = "ToBoolean"
    /\ out.tag = "referenceError" /\ out.val = <<"f", "o", "o">>

\* The outcome C7 expects of Equals(a, b) when one operand is an Object
\* and the other a primitive: the comparison of the once-reduced value.
C7_Reduced ==
    LET r == IF a.kind = "object" THEN toPrimitive(a) ELSE toPrimitive(b)
    IN  IF ~Returned(r) THEN SameOutcome(out, r)
        ELSE IF a.kind = "object" THEN SameOutcome(out, Equals(r.val, b))
        ELSE SameOutcome(out, Equals(a, r.val))
C7_ObjectVsPrimitive ==
    /\ op = "Equals"
    /\ \/ a.kind = "object" /\ b \in Primitives
       \/ b.kind = "object" /\ a \in Primitives

\* C7 (as stated): AbstractEquals of an Object and a primitive of any kind,
\* in either order, invokes the primitive-coercion hook exactly once and
\* yields the primitive-vs-primitive comparison of the reduced value.
C7_ReducedExactlyOnce ==
    C7_ObjectVsPrimitive => (out.prims = 1 /\ C7_Reduced)

\* C7 (amended): against Integer, BigInteger, Float, String, Boolean or
\* Symbol the hook is invoked exactly once and the result is the comparison
\* of the reduced value; against Null or Undefined the hook is not invoked
\* and the result is false.
C7_ReducedOnceExceptNullUndefined ==
    C7_ObjectVsPrimitive =>
        IF {a.kind, b.kind} \cap {"null", "undefined"} = {}
        THEN out.prims = 1 /\ C7_Reduced
        ELSE out.prims = 0 /\ Returned(out) /\ out.val = FALSE
C7_Witness ==
    /\ op = "Equals" /\ a.kind = "object" /\ b = valueTrue
    /\ out.prims = 1 /\ Returned(out) /\ out.val

\* The non-Boolean operand and the Integer standing for the Boolean one.
C8_BoolVsOther ==
    /\ op = "Equals"
    /\ (a.kind = "bool") # (b.kind = "bool")
C8_AsInteger ==
    IF a.kind = "bool"
    THEN Equals(valueInt(valueBool_ToInteger(a)), b)
    ELSE Equals(valueInt(valueBool_ToInteger(b)), a)

\* C8 (as stated): for a Boolean v and a non-Boolean x of any kind,
\* AbstractEquals(v, x) and AbstractEquals(x, v) have the outcome of
\* AbstractEquals(Integer(v ? 1 : 0), x).
C8_BooleanAsInteger ==
    C8_BoolVsOther => SameOutcome(out, C8_AsInteger)

\* C8 (amended): the same for every non-Boolean x that is not an
\* UnresolvedReference; for an UnresolvedReference x both AbstractEquals(v, x)
\* and AbstractEquals(x, v) raise the reference error of x.
C8_BooleanAsIntegerExceptUnresolved ==
    C8_BoolVsOther =>
        IF "unresolved" \notin {a.kind, b.kind}
        THEN SameOutcome(out, C8_AsInteger)
        ELSE /\ out.tag = "referenceError"
             /\ out.val = (IF a.kind = "unresolved" THEN a.ref ELSE b.ref)
C8_Witness ==
    /\ op = "Equals" /\ a = valueTrue /\ b = valueFloat("fin", FALSE, 2)
    /\ Returned(out) /\ out.val

\* C9: Null and Undefined are loosely equal to each other and to
\* themselves, and an Integer, Float, Boolean, Symbol, Object or
\* PropertySlot is loosely equal to neither, in either operand order.
C9Kinds == {"int", "float", "bool", "symbol", "object", "property"}
C9_NullUndefinedOnlyEachOther ==
    op = "Equals" =>
        /\ (a.kind \in {"null", "undefined"} /\ b.kind \in {"null", "undefined"})
              => (Returned(out) /\ out.val)
        /\ ((a.kind \in {"null", "undefined"} /\ b.kind \in C9Kinds)
               \/ (b.kind \in {"null", "undefined"} /\ a.kind \in C9Kinds))
              => (Returned(out) /\ ~out.val)
C9_Witness ==
    /\ op = "Equals" /\ a = valueFalse /\ b = valueNull
    /\ Returned(out) /\ ~out.val

\* C10: hash(Float +0.0) = hash(Float -0.0) = hash(Integer 0), although
\* SameValue tells the two zeros apart.
C10_ZeroHash ==
    /\ (op = "hash" /\ (IsZeroFloat(a) \/ a = valueInt(0)))
          => SameOutcome(out, Ret(Uint64OfInt(0)))
    /\ (op = "SameAs" /\ IsZeroFloat(a) /\ IsZeroFloat(b) /\ a.neg # b.neg)
          => (Returned(out) /\ ~out.val)
C10_Witness ==
    /\ op = "hash" /\ a = _negativeZero
    /\ Returned(out) /\ out.val = <<0, 0, 0>>


\* C11: ToInt32 of NaN, +Infinity, -Infinity is 0, 2^31 - 1, -2^31;
\* ToUInt32 of NaN and of -Infinity is 0 and of +Infinity is 2^32 - 1.
IsNonFinite(v) == v.kind = "float" /\ v.cls \in {"nan", "inf"}
C11_NonFiniteTo32 ==
    /\ (op = "ToInt32" /\ IsNonFinite(a)) =>
          /\ Returned(out)
          /\ out.val = (CASE IsNaN(a) -> 0
                          [] IsInf(a, 1) -> MaxInt32
                          [] OTHER -> MinInt32)
    /\ (op = "ToUInt32" /\ IsNonFinite(a)) =>
          /\ Returned(out)
          /\ out.val = (IF IsInf(a, 1) THEN MaxUint32 ELSE <<0, 0>>)


\* The value kinds C12 lists, and the message that names a value.
C12Kinds ==
    {"undefined", "null", "int", "int64", "float", "bool", "string", "symbol",
     "object"}
C12_Validation == op \in {"propGetter", "propSetter"} /\ a.kind \in C12Kinds
C12_Accepted == a.kind = "object" /\ assertCallable(a)
C12_Prefix ==
    IF op = "propGetter" THEN "Getter must be a function: "
    ELSE "Setter must be a function: "
C12_Text ==
    CASE a.kind = "symbol" -> a.desc
      [] Returned(toString(a)) -> toString(a).val.s
      [] OTHER -> ""
C12_NamesValue == out.tag = "typeError" /\ out.val = C12_Prefix \o C12_Text

\* C12 (as stated): validating a getter / setter value fails with a type
\* error naming the value for every non-callable value (Undefined, Null, a
\* number, a Boolean, a String, a Symbol, a non-callable Object); only a
\* callable Object is accepted and returned.
C12_OnlyCallableAccepted ==
    C12_Validation =>
        IF C12_Accepted THEN Returned(out) /\ out.val = a
        ELSE C12_NamesValue

\* C12 (amended): Undefined is accepted and yields no getter / setter; a
\* callable Object is accepted and returned; every other listed value fails
\* with a type error, which names the value when the value's string
\* coercion succeeds and is the coercion's own type error when it raises (a
\* Symbol, an Object reducing to a Symbol or whose hook raises).
C12_CallableOrUndefinedAccepted ==
    C12_Validation =>
        CASE a = _undefined -> Returned(out) /\ IsNil(out.val)
          [] C12_Accepted -> Returned(out) /\ out.val = a
          [] Returned(toString(a)) -> C12_NamesValue
          [] OTHER -> out.tag = "typeError" /\ out.val = toString(a).val
C12_Witness ==
    /\ op = "propSetter" /\ a = valueNull
    /\ out.tag = "typeError" /\ out.val = "Setter must be a function: null"


C13_Fatal == ~Returned(out) /\ out.tag = "fatal"

\* C13 (as stated): hash and Export on a PropertySlot, and hash on an
\* UnresolvedReference, never return a value and abort with a fatal error
\* that is neither a type error nor a reference error.
C13_HashExportFatal ==
    /\ (a.kind = "property" /\ op \in {"hash", "Export"}) => C13_Fatal
    /\ (a.kind = "unresolved" /\ op = "hash") => C13_Fatal

\* C13 (amended): hash and Export on a PropertySlot abort with a fatal
\* error; hash on an UnresolvedReference never returns a value either, but
\* raises the reference error carrying the unresolved name.
C13_SlotFatalUnresolvedReferenceError ==
    /\ (a.kind = "property" /\ op \in {"hash", "Export"}) => C13_Fatal
    /\ (a.kind = "unresolved" /\ op = "hash") =>
            /\ ~Returned(out)
            /\ out = throwReferenceError(a.ref)
C13_Witness ==
    /\ a.kind = "unresolved" /\ op = "hash"
    /\ out = throwReferenceError(<<"f", "o", "o">>)

C14_NumberOps ==
    {"ToInteger", "ToInt", "ToInt32", "ToUInt32", "ToInt64", "ToFloat",
     "ToNumber"}
C14_Rest ==
    /\ (a.kind = "symbol" /\ op \in C14_NumberOps) => out.tag = "typeError"
    /\ (a.kind = "symbol" /\ op = "toString") => out.tag = "typeError"
    /\ (a.kind = "symbol" /\ op = "ToBoolean") =>
            Returned(out) /\ out.val = TRUE
    /\ (a.kind = "symbol" /\ op = "String") =>
            Returned(out) /\ out.val = a.desc

\* C14 (as stated): every coercion of a Symbol to a number, and both
\* ToString and toString, raise a type error; ToBoolean returns true and
\* String() returns the descriptive text.
C14_SymbolCoercionsRaise ==
    /\ C14_Rest
    /\ (a.kind = "symbol" /\ op = "ToString") => out.tag = "typeError"

\* C14 (amended): every coercion of a Symbol to a number, and the internal
\* toString, raise a type error; ToString returns the Symbol itself without
\* raising; ToBoolean returns true and String() returns the descriptive
\* text.
C14_SymbolToStringReturnsSymbol ==
    /\ C14_Rest
    /\ (a.kind = "symbol" /\ op = "ToString") => Returned(out) /\ out.val = a
C14_Witness ==
    a.kind = "symbol" /\ op = "ToString" /\ Returned(out) /\ out.val = Symbol(2)


\* The objects an object's slot refers to, the objects reachable from a
\* set of objects, and the size of the graph when every reachable object is
\* counted once.
Refs(o) ==
    IF heap[o.id] = Nil THEN {}
    ELSE {heap[o.id].value, heap[o.id].getterFunc, heap[o.id].setterFunc}
            \cap MemObjects
RECURSIVE Closure(_)
Closure(S) ==
    LET T == S \cup UNION {Refs(o) : o \in S}
    IN  IF T = S THEN S ELSE Closure(T)
SelfReferential(o) == \E x \in Refs(o) : o \in Closure({x})
LeafSize(v) ==
    CASE v.kind = "int" -> SizeNumber
      [] v = GoReflectObject -> SizeEmptyStruct
      [] v = WrappedObject -> NativeSize
      [] OTHER -> 0
OwnSize(o) ==
    SizeEmptyStruct +
        (IF heap[o.id] = Nil THEN SizeEmptyStruct
         ELSE LeafSize(heap[o.id].value) + LeafSize(heap[o.id].getterFunc)
                + LeafSize(heap[o.id].setterFunc))
RECURSIVE SumOwn(_)
SumOwn(S) ==
    IF S = {} THEN 0
    ELSE LET o == CHOOSE x \in S : TRUE IN OwnSize(o) + SumOwn(S \ {o})
CountedOnce(o) == SumOwn(Closure({o}))

C15_Started == op # "init" /\ SelfReferential(a)
C15_Returned == op = "MemUsage returned" /\ SelfReferential(a)

C16_Relations == {"SameAs", "Equals", "StrictEquals"}
C16_TwoSymbols ==
    a.kind = "symbol" /\ b.kind = "symbol" /\ a.desc = b.desc

\* C16: two distinct Symbols created with the same descriptive text are
\* never SameValue, AbstractEquals or StrictEquals to each other, in either
\* operand order; each Symbol is equal to itself under all three; and the
\* hash of a Symbol is the value fixed at its creation, whatever the seed.
C16_SymbolIdentity ==
    /\ (op \in C16_Relations /\ C16_TwoSymbols) =>
            /\ Returned(out)
            /\ out.val = (a.h = b.h)
            /\ SameAs(b, a) = SameAs(a, b)
            /\ Equals(b, a) = Equals(a, b)
            /\ StrictEquals(b, a) = StrictEquals(a, b)
    /\ (op = "hash" /\ a.kind = "symbol") =>
            /\ Returned(out)
            /\ out.val = <<0, 2, a.h>>
C16_Witness ==
    /\ op = "Equals" /\ a = NewSymbol(1, "sym") /\ b = NewSymbol(2, "sym")
    /\ out = Ret(FALSE)


C17_Numeric == {"int", "int64", "float"}
C17_Receivers == {"int", "float", "bool", "null", "undefined", "symbol"}
\* the Integer n and the Float m denote the same number
C17_NumericallyEqual(n, m) ==
    m.cls = "fin" /\ 2 * n.n = (IF m.neg THEN -m.twice ELSE m.twice)

\* C17: StrictEquals coerces only inside the numeric family: an Integer and
\* a Float, in either order, are StrictEquals iff numerically equal; a
\* receiver of kind Integer, Float, Boolean, Null, Undefined or Symbol and
\* an argument of a different kind, not both numeric, are not StrictEquals;
\* two Objects are StrictEquals only if they are the same reference or the
\* receiver's self-equal hook accepts the other.
C17_StrictEqualsNoCoercion ==
    op = "StrictEquals" =>
        /\ (a.kind = "int" /\ b.kind = "float") =>
                out = Ret(C17_NumericallyEqual(a, b))
        /\ (a.kind = "float" /\ b.kind = "int") =>
                out = Ret(C17_NumericallyEqual(b, a))
        /\ (/\ a.kind \in C17_Receivers
            /\ b.kind # a.kind
            /\ ~(a.kind \in C17_Numeric /\ b.kind \in C17_Numeric)) =>
                out = Ret(FALSE)
        /\ (a.kind = "object" /\ b.kind = "object" /\ out = Ret(TRUE)) =>
                (a = b \/ selfEqual(a, b))
        /\ (a.kind = "object" /\ b.kind = "object") => Returned(out)
C17_Witness ==
    /\ op = "StrictEquals" /\ a = valueBool(TRUE) /\ b = valueInt(1)
    /\ out = Ret(FALSE)


\* C18: in every state of a PropertySlot reachable by get and set calls,
\* isWritable() returns true exactly when the writable flag is set or a
\* setter is present.
C18_IsWritable ==
    op = "isWritable" =>
        /\ Returned(out)
        /\ out.val = (p.writable \/ p.setterFunc # Nil)
C18_Witness ==
    /\ op = "isWritable" /\ out = Ret(TRUE)
    /\ ~p.writable /\ p.setterFunc = Object(3)


C20_Plain(q) == IsNil(q.getterFunc) /\ IsNil(q.setterFunc)
C20_Descriptor(q) ==
    <<q.writable, q.configurable, q.enumerable, q.accessor, q.getterFunc,
      q.setterFunc>>

\* C20: on a PropertySlot with no getter and no setter, set stores its
\* argument and get returns what is stored (the argument of the most recent
\* set, else the initial value, else Undefined); get never changes the
\* slot; neither get nor set changes the four flags or the getter / setter
\* references.
C20_PlainSlot ==
    [][/\ (op' = "set" /\ C20_Plain(p)) => p'.value = arg'
       /\ (op' = "get" /\ C20_Plain(p)) =>
              /\ out' = Ret(IF IsNil(p.value) THEN _undefined ELSE p.value)
              /\ calls' = <<>>
       /\ op' = "get" => p' = p
       /\ op' \in {"get", "set"} => C20_Descriptor(p') = C20_Descriptor(p)
      ]_vars
C20_Witness ==
    /\ op = "get" /\ C20_Plain(p) /\ ~p.accessor /\ ~p.writable
    /\ out = Ret(valueInt(1))


C19Kinds ==
    {"int", "int64", "float", "bool", "null", "undefined", "symbol", "object",
     "property"}

\* C19: SameValue is symmetric: for all a and b of kinds Integer,
\* BigInteger, Float, Boolean, Null, Undefined, Symbol, Object and
\* PropertySlot, SameValue(a, b) = SameValue(b, a).
C19_SameValueSymmetric ==
    (op = "SameAs" /\ a.kind \in C19Kinds /\ b.kind \in C19Kinds) =>
        /\ Returned(out)
        /\ out = SameAs(b, a)

====
